---------------------------- MODULE Spec2Model ----------------------------
(***************************************************************************)
(* A model of StelNavigator (src/core/StelNavigator.cpp): the simulated    *)
(* clock (JDay, timeSpeed), the owned observer (position), the transform   *)
(* matrices and the calls the navigator makes on its collaborators.        *)
(*                                                                         *)
(* Numbers.  A Julian Day is a double in the code.  Here it is a fixed     *)
(* point number [d |-> whole days, f |-> fraction], f counted in units of  *)
(* 1/FracPerDay day, 0 <= f < FracPerDay.  One unit is 1/10000 of a        *)
(* JD_SECOND, so JD_SECOND (1/86400 day) and the two clamp bounds of       *)
(* updateTime (written with six decimals) are all exact.  A time rate is   *)
(* an integer number of units per second, a deltaTime an integer number of *)
(* seconds.                                                                *)
(***************************************************************************)
EXTENDS Integers, Sequences, FiniteSets, TLC

VARIABLES
    JDay,        \* StelNavigator::JDay
    timeSpeed,   \* StelNavigator::timeSpeed
    position,    \* StelNavigator::position, the owned observer (NullObserver before init)
    selected,    \* StelObjectMgr: the first selected object, NoSelection when none
    mats,        \* the transform matrices written by updateTransformMatrices
    calls,       \* the calls made by the last operation, in order
    altAzVisionDirection,     \* StelNavigator::altAzVisionDirection
    earthEquVisionDirection,  \* StelNavigator::earthEquVisionDirection
    J2000EquVisionDirection,  \* StelNavigator::J2000EquVisionDirection
    mountMode,                \* StelNavigator::mountMode
    matAltAzModelView,        \* StelNavigator::matAltAzModelView
    timeNowStatics,           \* getIsTimeNow: its statics lastJD and previousResult
    returned                  \* the value returned by the last operation, if any

\* The vision direction in its three frames, the mount mode and the view matrix.
viewVars ==
    <<altAzVisionDirection, earthEquVisionDirection, J2000EquVisionDirection,
      mountMode, matAltAzModelView>>

vars ==
    <<JDay, timeSpeed, position, selected, mats, calls, viewVars,
      timeNowStatics, returned>>

---------------------------------------------------------------------------
(* Bounds of the model *)

\* updateTime is called with deltaTime in 0..MaxDelta seconds.
MaxDelta == 1

\* Julian Days are kept within Window JD_SECONDs of an anchor (see OnGrid).
Window == 1

\* Rates are kept within MaxRateMult * JD_SECOND in magnitude (see RateOnGrid).
MaxRateMult == 1

---------------------------------------------------------------------------
(* Fixed point Julian Days *)

FracPerDay == 864000000

\* StelUtils.hpp: #define JD_SECOND 0.000011574074074074074074 (1/86400 day)
JD_SECOND == 10000

JDNorm(d, f) == [d |-> d + (f \div FracPerDay), f |-> f % FracPerDay]

Days(n) == [d |-> n, f |-> 0]

JDOfUnits(u) == JDNorm(0, u)

JDAdd(a, b) == JDNorm(a.d + b.d, a.f + b.f)

JDNeg(a) == JDNorm(-a.d, -a.f)

JDLess(a, b) == a.d < b.d \/ (a.d = b.d /\ a.f < b.f)

JDLeq(a, b) == a = b \/ JDLess(a, b)

\* 38245309.499988, the upper limit of updateTime
JDayMax == [d |-> 38245309, f |-> 431989632]

\* -34803211.500012 = -34803212 + 0.499988, the lower limit of updateTime
JDayMin == [d |-> -34803212, f |-> 431989632]

\* 2451545., the default of navigation/preset_sky_time
J2000 == [d |-> 2451545, f |-> 0]


\* The Julian Day inputs of setJDay: far above and far below the supported
\* range, and the default preset.
JDInputs == {Days(1000000000), Days(-1000000000), J2000}

\* What StelUtils::getJDFromSystem() may return: the system clock, read at
\* two instants one second apart.
SystemJDs == {J2000, JDAdd(J2000, JDOfUnits(JD_SECOND))}

\* What setTodayTime computes for a valid time: today's date at the given
\* time of day, less the GMT shift.
TodayJDs == {JDAdd(J2000, JDOfUnits(-JD_SECOND))}

\* The day counts passed to addSolarDays.
SolarDayInputs == {Days(1), Days(-1), JDOfUnits(JD_SECOND)}

Anchors == {JDayMin, JDayMax, J2000}

\* The Julian Days the model represents: within Window seconds of an anchor.
OnGrid(jd) ==
    \E a \in Anchors : \E k \in (-Window)..Window :
        jd = JDAdd(a, JDOfUnits(k * JD_SECOND))

---------------------------------------------------------------------------
(* The clock *)

\* updateTime: "Fix time limits", the two tests in the order of the code.
ClampJDayDropLower(jd) == IF JDLess(JDayMax, jd) THEN JDayMax ELSE jd

ClampJDay(jd) ==
    LET a == IF JDLess(JDayMax, jd) THEN JDayMax ELSE jd
    IN  IF JDLess(a, JDayMin) THEN JDayMin ELSE a

\* updateTime: JDay += timeSpeed*deltaTime, then the limits.
AdvanceJDayNoClamp(jd, ts, dt) == JDAdd(jd, JDOfUnits(ts * dt))

AdvanceJDay(jd, ts, dt) == ClampJDay(JDAdd(jd, JDOfUnits(ts * dt)))

\* setJDay(jd) is declared in StelNavigator.hpp; the specification has it
\* set the absolute Julian Day and clamp it to the supported range.
setJDay(jd) ==
    IF JDLess(JDayMax, jd) THEN JDayMax
    ELSE IF JDLess(jd, JDayMin) THEN JDayMin
    ELSE jd

---------------------------------------------------------------------------
(* Rate stepping *)

\* The resolution of the rates the model represents.
RateStep == JD_SECOND \div 2

\* The rates Spec keeps to.
Rates == {k * RateStep : k \in (-(2 * MaxRateMult))..(2 * MaxRateMult)}

\* The rate is a double, which also takes the values +infinity and
\* -infinity: setTimeRate accepts them, and a product beyond the largest
\* double gives them.  They are written as Infinity and -Infinity, integers
\* beyond every finite rate of the model, so that the comparisons of the
\* code order them as the doubles are ordered.
Infinity == 2000000000

IsInfinite(s) == s = Infinity \/ s = -Infinity

\* s*k for a double s: exact on the finite rates of the model, which are far
\* from the largest double; an infinity times k > 0 is that infinity.
Times(s, k) == IF IsInfinite(s) THEN s ELSE s * k

\* s/k for a double s: exact whenever s is a multiple of k, which the guards
\* of the stepping actions require; an infinity over k > 0 is that infinity.
Quot(s, k) == IF IsInfinite(s) THEN s ELSE s \div k


\* increaseTimeSpeed scaling by 2, as increaseTimeSpeedLess does.
increaseTimeSpeedByTwo(s) ==
    IF s >= JD_SECOND THEN Times(s, 2)
    ELSE IF s < -JD_SECOND THEN Quot(s, 2)
    ELSE IF s >= 0 /\ s < JD_SECOND THEN JD_SECOND
    ELSE IF s >= -JD_SECOND /\ s < 0 THEN 0
    ELSE s

\* increaseTimeSpeed: the rate it passes to setTimeRate.
increaseTimeSpeed(s) ==
    IF s >= JD_SECOND THEN Times(s, 10)
    ELSE IF s < -JD_SECOND THEN Quot(s, 10)
    ELSE IF s >= 0 /\ s < JD_SECOND THEN JD_SECOND
    ELSE IF s >= -JD_SECOND /\ s < 0 THEN 0
    ELSE s

\* decreaseTimeSpeed: the rate it passes to setTimeRate.
decreaseTimeSpeed(s) ==
    IF s > JD_SECOND THEN Quot(s, 10)
    ELSE IF s <= -JD_SECOND THEN Times(s, 10)
    ELSE IF s > -JD_SECOND /\ s <= 0 THEN -JD_SECOND
    ELSE IF s > 0 /\ s <= JD_SECOND THEN 0
    ELSE s

\* increaseTimeSpeedLess leaving a paused simulation paused.
increaseTimeSpeedLessStuckAtZero(s) ==
    IF s >= JD_SECOND THEN Times(s, 2)
    ELSE IF s < -JD_SECOND THEN Quot(s, 2)
    ELSE IF s > 0 /\ s < JD_SECOND THEN JD_SECOND
    ELSE IF s >= -JD_SECOND /\ s < 0 THEN 0
    ELSE s

\* increaseTimeSpeedLess: the rate it passes to setTimeRate.
increaseTimeSpeedLess(s) ==
    IF s >= JD_SECOND THEN Times(s, 2)
    ELSE IF s < -JD_SECOND THEN Quot(s, 2)
    ELSE IF s >= 0 /\ s < JD_SECOND THEN JD_SECOND
    ELSE IF s >= -JD_SECOND /\ s < 0 THEN 0
    ELSE s


\* decreaseTimeSpeedLess snapping the rates of (-JD_SECOND, 0] to 0.
decreaseTimeSpeedLessToZero(s) ==
    IF s > JD_SECOND THEN Quot(s, 2)
    ELSE IF s <= -JD_SECOND THEN Times(s, 2)
    ELSE IF s > -JD_SECOND /\ s <= 0 THEN 0
    ELSE IF s > 0 /\ s <= JD_SECOND THEN 0
    ELSE s

\* decreaseTimeSpeedLess: the rate it passes to setTimeRate.
decreaseTimeSpeedLess(s) ==
    IF s > JD_SECOND THEN Quot(s, 2)
    ELSE IF s <= -JD_SECOND THEN Times(s, 2)
    ELSE IF s > -JD_SECOND /\ s <= 0 THEN -JD_SECOND
    ELSE IF s > 0 /\ s <= JD_SECOND THEN 0
    ELSE s

\* A step is modelled when its division, if it divides, is exact.
ExactIncrease(s, k) == s < -JD_SECOND => (IsInfinite(s) \/ s % k = 0)

ExactDecrease(s, k) == s > JD_SECOND => (IsInfinite(s) \/ s % k = 0)

\* The rates passed to setTimeRate.
RateInputs == {0, JD_SECOND, -JD_SECOND}

---------------------------------------------------------------------------
(* Locations and observers (StelLocation, StelObserver, SpaceShipObserver) *)

Loc(planet, name) == [planetName |-> planet, name |-> name]

\* The locations the location manager knows.
Sites == {Loc("Earth", "Paris"), Loc("Mars", "Olympus Mons")}

NullObserver == [kind |-> "Null"]

\* new StelObserver(loc)
StelObserver(loc) == [kind |-> "Static", loc |-> loc]

\* The location of a transition from a to b of length d after el seconds:
\* the discrete fields are those of a until the midpoint is passed or the
\* transition is complete, and those of b from then on.
InterpolatedLocation(a, b, d, el) ==
    IF 2 * el > d \/ el >= d THEN b ELSE a

\* new SpaceShipObserver(startLoc, target, d): the base class is built on
\* startLoc.
SpaceShipObserver(startLoc, target, d) ==
    [kind |-> "Transition", loc |-> startLoc, from |-> startLoc,
     to |-> target, duration |-> d, elapsed |-> 0]

\* position->update(deltaTime)
ObserverUpdate(o, dt) ==
    IF o.kind = "Transition"
    THEN [o EXCEPT !.elapsed = o.elapsed + dt,
                   !.loc = InterpolatedLocation(o.from, o.to, o.duration,
                                                o.elapsed + dt)]
    ELSE o

\* position->isObserverLifeOver()
isObserverLifeOver(o) == o.kind = "Transition" /\ o.elapsed >= o.duration

\* position->getNextObserver(), called once the lifetime is over
getNextObserver(o) == StelObserver(o.to)

\* position->getCurrentLocation()
getCurrentLocation(o) == o.loc

\* position->getHomePlanet(), a planet named by the current location
getHomePlanet(o) == o.loc.planetName

NoSelection == "none"

\* The objects the user can select.
Selectable == {"Mars"}

---------------------------------------------------------------------------
(* Matrices.  A matrix is a word of factors, the product in the order      *)
(* written; a factor is a named rotation or translation, perhaps           *)
(* transposed.  A rotation next to its own transpose cancels, which is all *)
(* the algebra the derivation uses.                                        *)

NoLoc == Loc("", "")

Factor(m, loc, jd, rot) ==
    [m |-> m, loc |-> loc, jd |-> jd, rot |-> rot, t |-> FALSE]

TransposeFactor(x) == [x EXCEPT !.t = ~x.t]

\* Mat4d::transpose()
Transpose(A) == [i \in 1..Len(A) |-> TransposeFactor(A[Len(A) + 1 - i])]

RECURSIVE MatMul(_, _)
\* Mat4d::operator*
MatMul(A, B) ==
    IF B = <<>> THEN A
    ELSE IF A # <<>> /\ A[Len(A)].rot /\ Head(B) = TransposeFactor(A[Len(A)])
         THEN MatMul(SubSeq(A, 1, Len(A) - 1), Tail(B))
         ELSE MatMul(Append(A, Head(B)), Tail(B))

\* matJ2000ToVsop87 = xrotation(-23.4392803055555555556 deg) * zrotation(0.0000275 deg)
matJ2000ToVsop87 ==
    <<Factor("xrotation(-23.4392803055555555556)", NoLoc, Days(0), TRUE),
      Factor("zrotation(0.0000275)", NoLoc, Days(0), TRUE)>>

matVsop87ToJ2000 == Transpose(matJ2000ToVsop87)

\* position->getRotAltAzToEquatorial(jd): the rotation by the home planet's
\* sidereal time at jd and the location's longitude and latitude
getRotAltAzToEquatorial(o, jd) ==
    <<Factor("RotAltAzToEquatorial", o.loc, jd, TRUE)>>

\* position->getRotEquatorialToVsop87(), of the home planet
getRotEquatorialToVsop87(o) ==
    <<Factor("RotEquatorialToVsop87", Loc(getHomePlanet(o), ""), Days(0), TRUE)>>

\* Mat4d::translation(position->getCenterVsop87Pos()), and of its negation
TranslationCenter(o) ==
    <<Factor("translation(center)", Loc(getHomePlanet(o), ""), Days(0), FALSE)>>

TranslationMinusCenter(o) ==
    <<Factor("translation(-center)", Loc(getHomePlanet(o), ""), Days(0), FALSE)>>

\* Mat4d::translation(Vec3d(0.,0.,position->getDistanceFromCenter())), and
\* of its negation
TranslationDistance(o) ==
    <<Factor("translation(0,0,distance)", o.loc, Days(0), FALSE)>>

TranslationMinusDistance(o) ==
    <<Factor("translation(0,0,-distance)", o.loc, Days(0), FALSE)>>

\* A default-constructed Mat4d, never assigned.
Unset == <<Factor("unset", NoLoc, Days(0), FALSE)>>

UnsetMatrices ==
    [matAltAzToEquinoxEqu |-> Unset, matEquinoxEquToAltAz |-> Unset,
     matEquinoxEquToJ2000 |-> Unset, matJ2000ToEquinoxEqu |-> Unset,
     matJ2000ToAltAz |-> Unset,
     matHeliocentricEclipticToEquinoxEqu |-> Unset,
     matAltAzToHeliocentricEcliptic |-> Unset,
     matHeliocentricEclipticToAltAz |-> Unset]


\* updateTransformMatrices with the factors of matJ2000ToAltAz exchanged.
TransformMatricesSwapped(o, jd) ==
    LET AltAzToEqu == getRotAltAzToEquatorial(o, jd)
        EquToAltAz == Transpose(AltAzToEqu)
        EquToJ2000 == MatMul(matVsop87ToJ2000, getRotEquatorialToVsop87(o))
        J2000ToEqu == Transpose(EquToJ2000)
        tmp == MatMul(MatMul(matJ2000ToVsop87, EquToJ2000), AltAzToEqu)
    IN  [matAltAzToEquinoxEqu |-> AltAzToEqu,
         matEquinoxEquToAltAz |-> EquToAltAz,
         matEquinoxEquToJ2000 |-> EquToJ2000,
         matJ2000ToEquinoxEqu |-> J2000ToEqu,
         matJ2000ToAltAz |-> MatMul(J2000ToEqu, EquToAltAz),
         matHeliocentricEclipticToEquinoxEqu |->
             MatMul(MatMul(J2000ToEqu, matVsop87ToJ2000),
                    TranslationMinusCenter(o)),
         matAltAzToHeliocentricEcliptic |->
             MatMul(MatMul(TranslationCenter(o), tmp), TranslationDistance(o)),
         matHeliocentricEclipticToAltAz |->
             MatMul(MatMul(TranslationMinusDistance(o), Transpose(tmp)),
                    TranslationMinusCenter(o))]

\* updateTransformMatrices with matJ2000ToEquinoxEqu assigned without the
\* transposition.
TransformMatricesNoTranspose(o, jd) ==
    LET AltAzToEqu == getRotAltAzToEquatorial(o, jd)
        EquToAltAz == Transpose(AltAzToEqu)
        EquToJ2000 == MatMul(matVsop87ToJ2000, getRotEquatorialToVsop87(o))
        J2000ToEqu == EquToJ2000
        tmp == MatMul(MatMul(matJ2000ToVsop87, EquToJ2000), AltAzToEqu)
    IN  [matAltAzToEquinoxEqu |-> AltAzToEqu,
         matEquinoxEquToAltAz |-> EquToAltAz,
         matEquinoxEquToJ2000 |-> EquToJ2000,
         matJ2000ToEquinoxEqu |-> J2000ToEqu,
         matJ2000ToAltAz |-> MatMul(EquToAltAz, J2000ToEqu),
         matHeliocentricEclipticToEquinoxEqu |->
             MatMul(MatMul(J2000ToEqu, matVsop87ToJ2000),
                    TranslationMinusCenter(o)),
         matAltAzToHeliocentricEcliptic |->
             MatMul(MatMul(TranslationCenter(o), tmp), TranslationDistance(o)),
         matHeliocentricEclipticToAltAz |->
             MatMul(MatMul(TranslationMinusDistance(o), Transpose(tmp)),
                    TranslationMinusCenter(o))]

\* updateTransformMatrices: the matrices it writes for observer o at jd.
TransformMatrices(o, jd) ==
    LET AltAzToEqu == getRotAltAzToEquatorial(o, jd)
        EquToAltAz == Transpose(AltAzToEqu)
        EquToJ2000 == MatMul(matVsop87ToJ2000, getRotEquatorialToVsop87(o))
        J2000ToEqu == Transpose(EquToJ2000)
        tmp == MatMul(MatMul(matJ2000ToVsop87, EquToJ2000), AltAzToEqu)
    IN  [matAltAzToEquinoxEqu |-> AltAzToEqu,
         matEquinoxEquToAltAz |-> EquToAltAz,
         matEquinoxEquToJ2000 |-> EquToJ2000,
         matJ2000ToEquinoxEqu |-> J2000ToEqu,
         matJ2000ToAltAz |-> MatMul(EquToAltAz, J2000ToEqu),
         matHeliocentricEclipticToEquinoxEqu |->
             MatMul(MatMul(J2000ToEqu, matVsop87ToJ2000),
                    TranslationMinusCenter(o)),
         matAltAzToHeliocentricEcliptic |->
             MatMul(MatMul(TranslationCenter(o), tmp), TranslationDistance(o)),
         matHeliocentricEclipticToAltAz |->
             MatMul(MatMul(TranslationMinusDistance(o), Transpose(tmp)),
                    TranslationMinusCenter(o))]

---------------------------------------------------------------------------
(* Vision directions and the view matrix.  A vector is a named vector with *)
(* the word of the matrices applied to it.                                 *)

Vec(name) == [m |-> <<>>, v |-> name]

\* Mat4d * Vec3d
MatVec(A, x) == [m |-> MatMul(A, x.m), v |-> x.v]

\* Vec3d(1.,0.,0.), the three directions after the constructor
ConstructedDirection == Vec("(1,0,0)")

\* Vec3f(1,1e-05,0.2), the first direction init() sets
FirstInitDirection == Vec("(1,1e-05,0.2)")

\* navigation/init_view_pos
initViewPos == Vec("initViewPos")

\* The directions passed to the vision direction setters.
VisionInputs == {Vec("v"), Vec("w")}

MountAltAzimuthal == "MountAltAzimuthal"

MountEquatorial == "MountEquatorial"

\* navigation/viewing_mode "horizon" and "equator"; any other value aborts init().
ViewingModes == {MountAltAzimuthal, MountEquatorial}

\* altAzToEquinoxEqu(v) and equinoxEquToAltAz(v) of StelNavigator.hpp: the
\* vector transformed by the current matrix of that name.
altAzToEquinoxEqu(M, v) == MatVec(M.matAltAzToEquinoxEqu, v)

equinoxEquToAltAz(M, v) == MatVec(M.matEquinoxEquToAltAz, v)

\* The three directions as a record.
Directions(altAz, earthEqu, j2000) ==
    [altAzVisionDirection |-> altAz, earthEquVisionDirection |-> earthEqu,
     J2000EquVisionDirection |-> j2000]

\* setAltAzVisionDirection deriving the J2000 direction from the alt-az one.
setAltAzVisionDirectionSkippingFrame(M, pos) ==
    LET altAz == pos
        earthEqu == altAzToEquinoxEqu(M, altAz)
        j2000 == MatVec(M.matEquinoxEquToJ2000, altAz)
    IN  Directions(altAz, earthEqu, j2000)

\* setAltAzVisionDirection: the three directions it stores, with matrices M.
setAltAzVisionDirection(M, pos) ==
    LET altAz == pos
        earthEqu == altAzToEquinoxEqu(M, altAz)
        j2000 == MatVec(M.matEquinoxEquToJ2000, earthEqu)
    IN  Directions(altAz, earthEqu, j2000)

\* setEquinoxEquVisionDirection: the three directions it stores.
setEquinoxEquVisionDirection(M, pos) ==
    LET earthEqu == pos
        j2000 == MatVec(M.matEquinoxEquToJ2000, earthEqu)
        altAz == equinoxEquToAltAz(M, earthEqu)
    IN  Directions(altAz, earthEqu, j2000)

\* setJ2000EquVisionDirection taking the J2000 direction to the equatorial
\* frame of date by the matrix of the opposite direction.
setJ2000EquVisionDirectionWrongWay(M, pos) ==
    LET j2000 == pos
        earthEqu == MatVec(M.matEquinoxEquToJ2000, j2000)
        altAz == equinoxEquToAltAz(M, earthEqu)
    IN  Directions(altAz, earthEqu, j2000)

\* setJ2000EquVisionDirection: the three directions it stores.
setJ2000EquVisionDirection(M, pos) ==
    LET j2000 == pos
        earthEqu == MatVec(M.matJ2000ToEquinoxEqu, j2000)
        altAz == equinoxEquToAltAz(M, earthEqu)
    IN  Directions(altAz, earthEqu, j2000)

\* A default-constructed view matrix, never assigned.
UnsetModelView == [f |-> Vec("unset"), sOf |-> Vec("unset"), sBy |-> Unset]

\* updateModelViewMat: the matrix of columns [s, u, -f, (0,0,0,1)], where f
\* is the normalized alt-az direction, s is (g.y, -g.x, 0) for the
\* normalized direction g (sOf) of the frame the mount mode selects, taken
\* to alt-az by the matrix sBy and normalized, and u = normalize(s ^ f).
updateModelViewMat(mode, altAz, earthEqu, M) ==
    IF mode = MountEquatorial
    THEN [f |-> altAz, sOf |-> earthEqu, sBy |-> M.matEquinoxEquToAltAz]
    ELSE [f |-> altAz, sOf |-> altAz, sBy |-> <<>>]

---------------------------------------------------------------------------
(* Calls on collaborators.  Each records the navigator's observer at the   *)
(* time of the call, which is what the callee can read back.               *)

\* emit(locationChanged(target))
CallLocationChanged(target, o) ==
    [f |-> "locationChanged", target |-> target, position |-> o]

\* objmgr->unSelect()
CallUnSelect(o) == [f |-> "unSelect", position |-> o]

\* solsystem->computePositions(jd, home->getHeliocentricEclipticPos())
CallComputePositions(jd, o) ==
    [f |-> "computePositions", jd |-> jd, observerPos |-> getHomePlanet(o),
     position |-> o]

\* qWarning() << "WARNING - time passed to StelNavigator::setTodayTime is not valid..."
CallWarning == [f |-> "qWarning"]

\* StelUtils::getJDFromSystem(), which returned now
CallGetJDFromSystem(now) == [f |-> "getJDFromSystem", jd |-> now]

\* A call of vision direction setter f with direction pos, made when the
\* matrices were M, the observer o and the Julian Day jd.
CallSetter(f, pos, M, o, jd) ==
    [f |-> f, pos |-> pos, mats |-> M, position |-> o, jd |-> jd]

---------------------------------------------------------------------------
(* moveObserverTo *)


\* moveObserverTo with the two durations exchanged.
ChosenDurationExchanged(o, target, duration, durationIfPlanetChange) ==
    IF getCurrentLocation(o).planetName = target.planetName
    THEN durationIfPlanetChange
    ELSE duration

\* double d = (getCurrentLocation().planetName==target.planetName) ? duration : durationIfPlanetChange;
ChosenDuration(o, target, duration, durationIfPlanetChange) ==
    IF getCurrentLocation(o).planetName = target.planetName
    THEN duration
    ELSE durationIfPlanetChange

\* moveObserverTo that lets a transition in progress keep its destination.
MovedObserverKeepsDestination(o, target, d) ==
    LET t == IF o.kind = "Transition" THEN o.to ELSE target
    IN  IF d > 0
        THEN ObserverUpdate(SpaceShipObserver(getCurrentLocation(o), t, d), 0)
        ELSE StelObserver(t)

\* The observer moveObserverTo leaves in position.
MovedObserver(o, target, d) ==
    IF d > 0
    THEN ObserverUpdate(SpaceShipObserver(getCurrentLocation(o), target, d), 0)
    ELSE StelObserver(target)


\* moveObserverTo emitting the signal before it replaces position.
MoveCallsEarly(o, target, d) == <<CallLocationChanged(target, o)>>

\* The calls of moveObserverTo: the signal, emitted once position is replaced.
MoveCalls(o, target, d) ==
    <<CallLocationChanged(target, MovedObserver(o, target, d))>>

\* The pairs <<duration, durationIfPlanetChange>> passed to moveObserverTo.
MoveInputs == {<<2, 0>>, <<0, 2>>, <<2, 2>>, <<-1, -1>>}

---------------------------------------------------------------------------
(* updateTime *)


\* updateTime without the replacement of an observer whose lifetime is over.
TickObserverNoSwap(o, dt) == ObserverUpdate(o, dt)

\* updateTime with the update hook run on every observer but a new one.
TickObserverNoUpdate(o, dt) ==
    IF isObserverLifeOver(o) THEN getNextObserver(o) ELSE o

\* The observer after the lifetime test and the update hook.
TickObserver(o, dt) ==
    LET o1 == IF isObserverLifeOver(o) THEN getNextObserver(o) ELSE o
    IN  ObserverUpdate(o1, dt)

\* The same without the test on the home planet.
TickUnSelectsAnySelection(o, sel) ==
    /\ isObserverLifeOver(o)
    /\ sel # NoSelection

\* "Unselect if the new home planet is the previously selected object"
TickUnSelects(o, sel) ==
    /\ isObserverLifeOver(o)
    /\ sel # NoSelection
    /\ sel = getHomePlanet(o)


\* updateTime asking the observer it had on entry for the home planet.
TickCallsOldObserver(jd, ts, o, sel, dt) ==
    (IF TickUnSelects(o, sel) THEN <<CallUnSelect(o)>> ELSE <<>>)
    \o <<CallComputePositions(AdvanceJDay(jd, ts, dt), ObserverUpdate(o, dt))>>

\* The calls of updateTime, in order.
TickCalls(jd, ts, o, sel, dt) ==
    (IF TickUnSelects(o, sel) THEN <<CallUnSelect(o)>> ELSE <<>>)
    \o <<CallComputePositions(AdvanceJDay(jd, ts, dt), TickObserver(o, dt))>>

---------------------------------------------------------------------------
(* addSiderealDays *)

\* home->getSiderealDay(), in days: 0.99727 for the Earth, 1.02596 for Mars.
SiderealDay(planet) ==
    IF planet = "Earth" THEN [d |-> 0, f |-> 861641280]
    ELSE [d |-> 1, f |-> 22429440]

\* n * a for an integer n
JDTimes(n, a) == JDNorm(n * a.d, n * a.f)

\* The Julian Days addSiderealDays(n) adds for the home planet.
SiderealStep(planet, n) ==
    IF planet # "Solar System StelObserver"
    THEN JDTimes(n, SiderealDay(planet))
    ELSE Days(n)

---------------------------------------------------------------------------
(* getIsTimeNow *)

\* fabs(a - b)
JDAbsDiff(a, b) ==
    LET x == JDAdd(a, JDNeg(b))
    IN  IF JDLess(x, Days(0)) THEN JDNeg(x) ELSE x

\* fabs(getJDay()-StelUtils::getJDFromSystem())<JD_SECOND
IsNow(jd, now) == JDLess(JDAbsDiff(jd, now), JDOfUnits(JD_SECOND))

\* fabs(lastJD-getJDay())>JD_SECOND/4
MovedSinceLast(st, jd) ==
    JDLess(JDOfUnits(JD_SECOND \div 4), JDAbsDiff(st.lastJD, jd))

\* getIsTimeNow reads the system clock when it initialises its statics, on
\* its first call, and when it recomputes the result.
ReadsClock(st, jd) == ~st.initialised \/ MovedSinceLast(st, jd)

\* The statics after a call of getIsTimeNow at Julian Day jd, when the
\* system clock reads now.
getIsTimeNow(st, jd, now) ==
    LET st1 == IF st.initialised THEN st
               ELSE [initialised |-> TRUE, lastJD |-> jd,
                     previousResult |-> IsNow(jd, now)]
    IN  IF MovedSinceLast(st1, jd)
        THEN [st1 EXCEPT !.lastJD = jd, !.previousResult = IsNow(jd, now)]
        ELSE st1

---------------------------------------------------------------------------
(* The state machine *)

TypeOK ==
    /\ JDay \in [d : Int, f : 0..(FracPerDay - 1)]
    /\ timeSpeed \in Int
    /\ position.kind \in {"Null", "Static", "Transition"}
    /\ selected \in Selectable \cup {NoSelection}
    /\ mountMode \in ViewingModes
    /\ timeNowStatics.initialised \in BOOLEAN
    /\ timeNowStatics.previousResult \in BOOLEAN
    /\ Len(returned) <= 1

\* The statics of getIsTimeNow before its first call.
StaticsBeforeFirstCall ==
    [initialised |-> FALSE, lastJD |-> Days(0), previousResult |-> FALSE]

\* The state after StelNavigator::StelNavigator().
Init ==
    /\ JDay = Days(0)
    /\ timeSpeed = JD_SECOND
    /\ position = NullObserver
    /\ selected = NoSelection
    /\ mats = UnsetMatrices
    /\ calls = <<>>
    /\ altAzVisionDirection = ConstructedDirection
    /\ earthEquVisionDirection = ConstructedDirection
    /\ J2000EquVisionDirection = ConstructedDirection
    /\ mountMode = MountAltAzimuthal
    /\ matAltAzModelView = UnsetModelView
    /\ timeNowStatics = StaticsBeforeFirstCall
    /\ returned = <<>>

Ready == position # NullObserver

\* The defaults of init_location/location ("Paris, Paris, France") and of
\* navigation/viewing_mode ("horizon").
DefaultLocation == Loc("Earth", "Paris")

DefaultMountMode == MountAltAzimuthal

\* The system clock when init() runs: the first of the instants read.
FirstInstant == J2000

\* The Julian Day init() ends with, for each navigation/startup_time_mode.
StartupJDs(now) == {now} \cup {setJDay(jd) : jd \in JDInputs \cup TodayJDs}

\* The calls init() makes up to its second vision direction setter: the
\* clock read of setTimeNow, the setter of line 68 and, once the matrices
\* are computed, the setter of line 87.
InitCalls(M0, loc, now) ==
    LET o == StelObserver(loc)
        jd == setJDay(now)
    IN  <<CallGetJDFromSystem(now),
          CallSetter("setAltAzVisionDirection", FirstInitDirection, M0, o, jd),
          CallSetter("setAltAzVisionDirection", initViewPos,
                     TransformMatrices(o, jd), o, jd)>>

\* init(): the observer at the default location, the time set to now, a
\* first vision direction, the matrices computed, the mount mode, the
\* configured vision direction, then the start-up time mode applied.
InitNavigator(loc, now, startJD, mode) ==
    /\ ~Ready
    /\ position' = StelObserver(loc)
    /\ mats' = TransformMatrices(StelObserver(loc), setJDay(now))
    /\ mountMode' = mode
    /\ LET dirs == setAltAzVisionDirection(mats', initViewPos)
       IN  /\ altAzVisionDirection' = dirs.altAzVisionDirection
           /\ earthEquVisionDirection' = dirs.earthEquVisionDirection
           /\ J2000EquVisionDirection' = dirs.J2000EquVisionDirection
           /\ matAltAzModelView' =
                  updateModelViewMat(mode, dirs.altAzVisionDirection,
                                     dirs.earthEquVisionDirection, mats')
    /\ JDay' = startJD
    /\ calls' = InitCalls(mats, loc, now)
    /\ returned' = <<>>
    /\ UNCHANGED <<timeSpeed, selected, timeNowStatics>>

SetJDay(jd) ==
    /\ Ready
    /\ JDay' = setJDay(jd)
    /\ calls' = <<>>
    /\ UNCHANGED <<timeSpeed, position, selected, mats, viewVars, timeNowStatics>>
    /\ returned' = <<>>

\* setTimeNow(): setJDay(StelUtils::getJDFromSystem())
SetTimeNow(now) ==
    /\ Ready
    /\ JDay' = setJDay(now)
    /\ calls' = <<CallGetJDFromSystem(now)>>
    /\ UNCHANGED <<timeSpeed, position, selected, mats, viewVars, timeNowStatics>>
    /\ returned' = <<>>

\* setTodayTime(target) without the fallback: the warning, and today at
\* target even when target is invalid.
SetTodayTimeNoFallback(valid, today, now) ==
    /\ Ready
    /\ JDay' = setJDay(today)
    /\ calls' = IF valid THEN <<CallGetJDFromSystem(now)>>
                 ELSE <<CallWarning, CallGetJDFromSystem(now)>>
    /\ UNCHANGED <<timeSpeed, position, selected, mats, viewVars, timeNowStatics>>
    /\ returned' = <<>>

\* setTodayTime(target): today at target when target is valid, else a
\* warning and setTimeNow().
SetTodayTime(valid, today, now) ==
    /\ Ready
    /\ JDay' = IF valid THEN setJDay(today) ELSE setJDay(now)
    /\ calls' = IF valid THEN <<CallGetJDFromSystem(now)>>
                 ELSE <<CallWarning, CallGetJDFromSystem(now)>>
    /\ UNCHANGED <<timeSpeed, position, selected, mats, viewVars, timeNowStatics>>
    /\ returned' = <<>>

\* addSolarDays(d): setJDay(getJDay() + d)
AddSolarDays(d) ==
    /\ Ready
    /\ JDay' = setJDay(JDAdd(JDay, d))
    /\ calls' = <<>>
    /\ UNCHANGED <<timeSpeed, position, selected, mats, viewVars, timeNowStatics>>
    /\ returned' = <<>>

\* The same, with the sidereal day of the home planet applied to the
\* barycenter too.
AddSiderealDaysAlwaysScaled(n) ==
    /\ Ready
    /\ JDay' = setJDay(JDAdd(JDay, JDTimes(n, SiderealDay(getHomePlanet(position)))))
    /\ calls' = <<>>
    /\ UNCHANGED <<timeSpeed, position, selected, mats, viewVars, timeNowStatics>>
    /\ returned' = <<>>

\* addSiderealDays(d): d scaled by the home planet's sidereal day unless the
\* home planet is "Solar System StelObserver", then setJDay(getJDay() + d)
AddSiderealDays(n) ==
    /\ Ready
    /\ JDay' = setJDay(JDAdd(JDay, SiderealStep(getHomePlanet(position), n)))
    /\ calls' = <<>>
    /\ UNCHANGED <<timeSpeed, position, selected, mats, viewVars, timeNowStatics>>
    /\ returned' = <<>>

\* setTimeRate(ts), declared in StelNavigator.hpp
SetTimeRate(ts) ==
    /\ Ready
    /\ timeSpeed' = ts
    /\ calls' = <<>>
    /\ UNCHANGED <<JDay, position, selected, mats, viewVars, timeNowStatics>>
    /\ returned' = <<>>

IncreaseTimeSpeed ==
    /\ Ready
    /\ ExactIncrease(timeSpeed, 10)
    /\ timeSpeed' = increaseTimeSpeed(timeSpeed)
    /\ calls' = <<>>
    /\ UNCHANGED <<JDay, position, selected, mats, viewVars, timeNowStatics>>
    /\ returned' = <<>>

DecreaseTimeSpeed ==
    /\ Ready
    /\ ExactDecrease(timeSpeed, 10)
    /\ timeSpeed' = decreaseTimeSpeed(timeSpeed)
    /\ calls' = <<>>
    /\ UNCHANGED <<JDay, position, selected, mats, viewVars, timeNowStatics>>
    /\ returned' = <<>>

IncreaseTimeSpeedLess ==
    /\ Ready
    /\ ExactIncrease(timeSpeed, 2)
    /\ timeSpeed' = increaseTimeSpeedLess(timeSpeed)
    /\ calls' = <<>>
    /\ UNCHANGED <<JDay, position, selected, mats, viewVars, timeNowStatics>>
    /\ returned' = <<>>

DecreaseTimeSpeedLess ==
    /\ Ready
    /\ ExactDecrease(timeSpeed, 2)
    /\ timeSpeed' = decreaseTimeSpeedLess(timeSpeed)
    /\ calls' = <<>>
    /\ UNCHANGED <<JDay, position, selected, mats, viewVars, timeNowStatics>>
    /\ returned' = <<>>

MoveObserverTo(target, duration, durationIfPlanetChange) ==
    /\ Ready
    /\ LET d == ChosenDuration(position, target, duration, durationIfPlanetChange)
       IN  /\ position' = MovedObserver(position, target, d)
           /\ calls' = MoveCalls(position, target, d)
    /\ UNCHANGED <<JDay, timeSpeed, selected, mats, viewVars, timeNowStatics>>
    /\ returned' = <<>>

UpdateTime(deltaTime) ==
    /\ Ready
    /\ OnGrid(AdvanceJDay(JDay, timeSpeed, deltaTime))
    /\ JDay' = AdvanceJDay(JDay, timeSpeed, deltaTime)
    /\ selected' = IF TickUnSelects(position, selected) THEN NoSelection ELSE selected
    /\ position' = TickObserver(position, deltaTime)
    /\ calls' = TickCalls(JDay, timeSpeed, position, selected, deltaTime)
    /\ UNCHANGED <<timeSpeed, mats, viewVars, timeNowStatics>>
    /\ returned' = <<>>

UpdateTransformMatrices ==
    /\ Ready
    /\ mats' = TransformMatrices(position, JDay)
    /\ calls' = <<>>
    /\ UNCHANGED <<JDay, timeSpeed, position, selected, viewVars, timeNowStatics>>
    /\ returned' = <<>>

\* setMountMode(m), declared in StelNavigator.hpp
SetMountMode(m) ==
    /\ Ready
    /\ mountMode' = m
    /\ calls' = <<>>
    /\ returned' = <<>>
    /\ UNCHANGED <<JDay, timeSpeed, position, selected, mats,
                   altAzVisionDirection, earthEquVisionDirection,
                   J2000EquVisionDirection, matAltAzModelView, timeNowStatics>>

\* The vision direction setter named f, called with pos, that stores the
\* directions dirs: the directions, then updateModelViewMat().
SetVisionDirection(f, pos, dirs) ==
    /\ Ready
    /\ altAzVisionDirection' = dirs.altAzVisionDirection
    /\ earthEquVisionDirection' = dirs.earthEquVisionDirection
    /\ J2000EquVisionDirection' = dirs.J2000EquVisionDirection
    /\ matAltAzModelView' =
           updateModelViewMat(mountMode, dirs.altAzVisionDirection,
                              dirs.earthEquVisionDirection, mats)
    /\ calls' = <<CallSetter(f, pos, mats, position, JDay)>>
    /\ returned' = <<>>
    /\ UNCHANGED <<JDay, timeSpeed, position, selected, mats, mountMode,
                   timeNowStatics>>

SetAltAzVisionDirection(pos) ==
    SetVisionDirection("setAltAzVisionDirection", pos,
                       setAltAzVisionDirection(mats, pos))

SetEquinoxEquVisionDirection(pos) ==
    SetVisionDirection("setEquinoxEquVisionDirection", pos,
                       setEquinoxEquVisionDirection(mats, pos))

SetJ2000EquVisionDirection(pos) ==
    SetVisionDirection("setJ2000EquVisionDirection", pos,
                       setJ2000EquVisionDirection(mats, pos))

UpdateModelViewMat ==
    /\ Ready
    /\ matAltAzModelView' =
           updateModelViewMat(mountMode, altAzVisionDirection,
                              earthEquVisionDirection, mats)
    /\ calls' = <<>>
    /\ returned' = <<>>
    /\ UNCHANGED <<JDay, timeSpeed, position, selected, mats,
                   altAzVisionDirection, earthEquVisionDirection,
                   J2000EquVisionDirection, mountMode, timeNowStatics>>

\* getIsTimeNow(), when the system clock reads now.
GetIsTimeNow(now) ==
    /\ Ready
    /\ timeNowStatics' = getIsTimeNow(timeNowStatics, JDay, now)
    /\ returned' = <<timeNowStatics'.previousResult>>
    /\ calls' = IF ReadsClock(timeNowStatics, JDay)
                THEN <<CallGetJDFromSystem(now)>> ELSE <<>>
    /\ UNCHANGED <<JDay, timeSpeed, position, selected, mats, viewVars>>

\* The user selects an object, or nothing (StelObjectMgr).
Select(obj) ==
    /\ Ready
    /\ selected' = obj
    /\ calls' = <<>>
    /\ UNCHANGED <<JDay, timeSpeed, position, mats, viewVars, timeNowStatics>>
    /\ returned' = <<>>

Next ==
    \/ \E startJD \in StartupJDs(FirstInstant) :
           InitNavigator(DefaultLocation, FirstInstant, startJD, DefaultMountMode)
    \/ \E jd \in JDInputs : SetJDay(jd)
    \/ \E now \in SystemJDs : SetTimeNow(now)
    \/ \E valid \in BOOLEAN : \E today \in TodayJDs : \E now \in SystemJDs :
           SetTodayTime(valid, today, now)
    \/ \E d \in SolarDayInputs : AddSolarDays(d) /\ OnGrid(JDay')
    \/ \E n \in {1, -1} : AddSiderealDays(n) /\ OnGrid(JDay')
    \/ \E ts \in RateInputs : SetTimeRate(ts)
    \/ IncreaseTimeSpeed /\ timeSpeed' \in Rates
    \/ DecreaseTimeSpeed /\ timeSpeed' \in Rates
    \/ IncreaseTimeSpeedLess /\ timeSpeed' \in Rates
    \/ DecreaseTimeSpeedLess /\ timeSpeed' \in Rates
    \/ \E target \in Sites : \E ds \in MoveInputs :
           MoveObserverTo(target, ds[1], ds[2])
    \/ \E deltaTime \in 0..MaxDelta : UpdateTime(deltaTime)
    \/ UpdateTransformMatrices
    \/ \E obj \in Selectable \cup {NoSelection} : Select(obj)

Spec == Init /\ [][Next]_vars

\* The vision directions and the view matrix init() leaves, and statics
\* of getIsTimeNow not yet initialised.
AfterInit(mode) ==
    LET dirs == setAltAzVisionDirection(mats, initViewPos)
    IN  /\ altAzVisionDirection = dirs.altAzVisionDirection
        /\ earthEquVisionDirection = dirs.earthEquVisionDirection
        /\ J2000EquVisionDirection = dirs.J2000EquVisionDirection
        /\ mountMode = mode
        /\ matAltAzModelView =
               updateModelViewMat(mode, dirs.altAzVisionDirection,
                                  dirs.earthEquVisionDirection, mats)
        /\ timeNowStatics = StaticsBeforeFirstCall
        /\ returned = <<>>

---------------------------------------------------------------------------
(* updateTime as a function of the stored Julian Day: the clock fields are *)
(* drawn from Julian Days inside and outside the supported range and from  *)
(* a wider set of rates, and updateTime is applied.                        *)

\* The rates of the tick specification, up to MaxTickRate seconds a second.
MaxTickRate == 10

TickRates == {k * RateStep : k \in (-(2 * MaxTickRate))..(2 * MaxTickRate)}

TickJDays ==
    {Days(1000000000), Days(-1000000000),
     JDAdd(JDayMax, JDOfUnits(JD_SECOND)), JDAdd(JDayMin, JDOfUnits(-JD_SECOND)),
     JDayMax, JDayMin, J2000}

TickObservers ==
    {StelObserver(l) : l \in Sites}
    \cup {MovedObserver(StelObserver(a), b, 2) : a, b \in Sites}

TickInit ==
    /\ JDay \in TickJDays
    /\ timeSpeed \in TickRates
    /\ position \in TickObservers
    /\ selected = NoSelection
    /\ mats = TransformMatrices(position, J2000)
    /\ calls = <<>>
    /\ AfterInit(MountAltAzimuthal)

TickNext == \E deltaTime \in 0..MaxDelta : UpdateTime(deltaTime)

SpecTick == TickInit /\ [][TickNext]_vars

---------------------------------------------------------------------------
(* The vision directions under the operations that change the matrices:    *)
(* init() with either mount mode at either site, the three setters, the    *)
(* mount mode, the view matrix, and the clock, the observer and the        *)
(* matrices changing in any order.                                         *)

ViewNext ==
    \/ \E loc \in Sites : \E mode \in ViewingModes :
           InitNavigator(loc, FirstInstant, FirstInstant, mode)
    \/ \E pos \in VisionInputs : SetAltAzVisionDirection(pos)
    \/ \E pos \in VisionInputs : SetEquinoxEquVisionDirection(pos)
    \/ \E pos \in VisionInputs : SetJ2000EquVisionDirection(pos)
    \/ \E m \in ViewingModes : SetMountMode(m)
    \/ UpdateModelViewMat
    \/ UpdateTransformMatrices
    \/ \E deltaTime \in 0..MaxDelta : UpdateTime(deltaTime)
    \/ \E target \in Sites : MoveObserverTo(target, 0, 0)
    \/ \E now \in SystemJDs : SetTimeNow(now)

SpecView == Init /\ [][ViewNext]_vars

---------------------------------------------------------------------------
(* Steps of the operations, for the properties below.  The tests on the    *)
(* calls, which the operation implies, come first: they dismiss the steps  *)
(* of the other operations at once.                                        *)

\* A step of updateTime(deltaTime).
Ticked(deltaTime) ==
    /\ calls' # <<>>
    /\ calls'[Len(calls')].f = "computePositions"
    /\ UpdateTime(deltaTime)

\* A step of moveObserverTo(target, duration, durationIfPlanetChange).
Moved(target, duration, durationIfPlanetChange) ==
    /\ calls' # <<>>
    /\ calls'[1].f = "locationChanged"
    /\ MoveObserverTo(target, duration, durationIfPlanetChange)

AnyMoveObserverTo ==
    \E target \in Sites : \E ds \in MoveInputs : Moved(target, ds[1], ds[2])

\* A step of updateTransformMatrices.
Transformed ==
    /\ UNCHANGED <<JDay, timeSpeed, position, selected>>
    /\ UpdateTransformMatrices

---------------------------------------------------------------------------
(* C1 *)

InRange(jd) == JDLeq(JDayMin, jd) /\ JDLeq(jd, JDayMax)

\* C1: in every reachable state the simulated Julian Day lies in
\* [-34803211.500012, 38245309.499988].
C1_JDayInRange == InRange(JDay)

\* An operation has driven the Julian Day onto a limit.
C1_Witness == Ready /\ (JDay = JDayMax \/ JDay = JDayMin)

---------------------------------------------------------------------------
(* C2 *)

\* x clamped to [JDayMin, JDayMax]
Clamped(x) ==
    IF JDLess(JDayMax, x) THEN JDayMax
    ELSE IF JDLess(x, JDayMin) THEN JDayMin
    ELSE x

\* C2: whatever the stored Julian Day, the rate and deltaTime, updateTime
\* leaves JDay = clamp(JDay_old + timeSpeed*deltaTime); a Julian Day of 1e9
\* becomes 38245309.499988 and one of -1e9 becomes -34803211.500012.
C2_UpdateTimeClamps ==
    [][\A deltaTime \in 0..MaxDelta :
          Ticked(deltaTime) =>
              /\ JDay' = Clamped(JDAdd(JDay, JDOfUnits(timeSpeed * deltaTime)))
              /\ (JDay = Days(1000000000) => JDay' = JDayMax)
              /\ (JDay = Days(-1000000000) => JDay' = JDayMin)]_vars

\* updateTime(1) at one second a second has brought a Julian Day from below
\* the range up to the lower limit.
C2_Witness ==
    /\ JDay = JDayMin
    /\ timeSpeed = JD_SECOND
    /\ position.kind = "Transition"
    /\ position.elapsed = 1
    /\ calls # <<>>

---------------------------------------------------------------------------
(* C3 *)

\* The matrices of section 4.4 of the specification for observer o at jd.
Section44(o, jd) ==
    LET altAzToEquOfDate == getRotAltAzToEquatorial(o, jd)
        equOfDateToAltAz == Transpose(altAzToEquOfDate)
        equOfDateToJ2000 ==
            MatMul(Transpose(matJ2000ToVsop87), getRotEquatorialToVsop87(o))
        J2000ToEquOfDate == Transpose(equOfDateToJ2000)
        tmp == MatMul(MatMul(matJ2000ToVsop87, equOfDateToJ2000), altAzToEquOfDate)
    IN  [matAltAzToEquinoxEqu |-> altAzToEquOfDate,
         matEquinoxEquToAltAz |-> equOfDateToAltAz,
         matEquinoxEquToJ2000 |-> equOfDateToJ2000,
         matJ2000ToEquinoxEqu |-> J2000ToEquOfDate,
         matJ2000ToAltAz |-> MatMul(equOfDateToAltAz, J2000ToEquOfDate),
         matHeliocentricEclipticToEquinoxEqu |->
             MatMul(MatMul(J2000ToEquOfDate, matVsop87ToJ2000),
                    TranslationMinusCenter(o)),
         matAltAzToHeliocentricEcliptic |->
             MatMul(MatMul(TranslationCenter(o), tmp), TranslationDistance(o)),
         matHeliocentricEclipticToAltAz |->
             MatMul(MatMul(TranslationMinusDistance(o), Transpose(tmp)),
                    TranslationMinusCenter(o))]

---------------------------------------------------------------------------
(* C4 *)

\* C4: updateTime calls computePositions last, with the clamped new JDay
\* and the home planet of the observer it ends with; when the lifetime of
\* the observer was over on entry, that observer is the Static observer at
\* the destination, never the discarded transition.
C4_ComputeAfterSwap ==
    [][\A deltaTime \in 0..MaxDelta :
          Ticked(deltaTime) =>
              LET c == calls'[Len(calls')]
              IN  /\ c.f = "computePositions"
                  /\ c.jd = Clamped(JDAdd(JDay, JDOfUnits(timeSpeed * deltaTime)))
                  /\ c.jd = JDay'
                  /\ c.position = position'
                  /\ c.observerPos = position'.loc.planetName
                  /\ isObserverLifeOver(position) =>
                         /\ c.position = [kind |-> "Static", loc |-> position.to]
                         /\ c.observerPos = position.to.planetName]_vars

\* updateTime has cleared the selection for a transition whose lifetime
\* was over, and computed the positions for the Static observer.
C4_Witness ==
    /\ Len(calls) = 2
    /\ calls[1].f = "unSelect"
    /\ calls[1].position.kind = "Transition"
    /\ calls[2].f = "computePositions"
    /\ calls[2].position.kind = "Static"

---------------------------------------------------------------------------
(* C5 *)

\* C5 as stated: at the end of every updateTime call the observer is not a
\* transition whose lifetime is over.
C5_Original ==
    [][\A deltaTime \in 0..MaxDelta :
          Ticked(deltaTime) => ~isObserverLifeOver(position')]_vars

\* C5 amended: a transition whose lifetime was over when updateTime was
\* called is replaced in that call by the Static observer at its
\* destination; a transition that completes during a call stays until the
\* next call, already reporting the destination as its current location.
C5_ReplacedInNextTick ==
    [][\A deltaTime \in 0..MaxDelta :
          Ticked(deltaTime) =>
              /\ isObserverLifeOver(position) =>
                     position' = [kind |-> "Static", loc |-> position.to]
              /\ isObserverLifeOver(position') =>
                     /\ position.kind = "Transition"
                     /\ position.elapsed < position.duration
                     /\ position.elapsed + deltaTime >= position.duration
                     /\ position'.loc = position.to]_vars

\* A transition has completed during updateTime and is still the observer.
C5_Witness ==
    /\ position.kind = "Transition"
    /\ position.elapsed >= position.duration
    /\ calls # <<>>
    /\ calls[Len(calls)].f = "computePositions"

---------------------------------------------------------------------------
(* C6 *)


\* C6: right after a moveObserverTo with a positive chosen duration the
\* current location still names the planet of the origin; a Static observer
\* never reports its lifetime over; a transition whose elapsed time has
\* reached its duration does, and the next updateTime replaces it by the
\* Static observer at the destination; a Static observer stays until the
\* next moveObserverTo.
C6_TransitionLifecycle ==
    [][/\ \A target \in Sites : \A ds \in MoveInputs :
              (/\ Moved(target, ds[1], ds[2])
               /\ (IF position.loc.planetName = target.planetName
                   THEN ds[1] ELSE ds[2]) > 0)
              => position'.loc.planetName = position.loc.planetName
       /\ position.kind = "Static" => ~isObserverLifeOver(position)
       /\ (position.kind = "Transition" /\ position.elapsed >= position.duration)
              => isObserverLifeOver(position)
       /\ \A deltaTime \in 0..MaxDelta :
              (Ticked(deltaTime) /\ isObserverLifeOver(position))
              => /\ position'.kind = "Static"
                 /\ position'.loc = position.to
                 /\ position'.loc.planetName = position.to.planetName
       /\ (position.kind = "Static" /\ position' # position)
              => AnyMoveObserverTo]_vars

\* A transition from the Earth to Mars has ended and updateTime has put the
\* Static observer on Mars in its place.
C6_Witness ==
    /\ position = [kind |-> "Static", loc |-> Loc("Mars", "Olympus Mons")]
    /\ Len(calls) = 2
    /\ calls[1].f = "unSelect"
    /\ calls[1].position.kind = "Transition"
    /\ calls[1].position.from.planetName = "Earth"
    /\ calls[1].position.to.planetName = "Mars"

---------------------------------------------------------------------------
(* C7 *)

\* C7: moveObserverTo chooses duration when the target is on the planet of
\* the current location and durationIfPlanetChange otherwise; a positive
\* choice d leaves a transition from the current location to the target of
\* length d on which no time has elapsed, any other choice leaves the
\* Static observer at the target; no transition has a duration <= 0.
C7_MoveObserverTo ==
    /\ [](position.kind = "Transition" => position.duration > 0)
    /\ [][\A target \in Sites : \A ds \in MoveInputs :
              Moved(target, ds[1], ds[2]) =>
                  LET d == IF position.loc.planetName = target.planetName
                           THEN ds[1] ELSE ds[2]
                  IN  IF d > 0
                      THEN position' = [kind |-> "Transition",
                                        loc |-> position.loc,
                                        from |-> position.loc,
                                        to |-> target,
                                        duration |-> d,
                                        elapsed |-> 0]
                      ELSE position' = [kind |-> "Static", loc |-> target]]_vars

\* moveObserverTo has started a transition to another planet.
C7_Witness ==
    /\ position.kind = "Transition"
    /\ position.elapsed = 0
    /\ position.from.planetName # position.to.planetName
    /\ calls # <<>>
    /\ calls[1].f = "locationChanged"

---------------------------------------------------------------------------
(* C8 *)

\* The number of locationChanged signals among the calls cs.
Emitted(cs) == Cardinality({i \in 1..Len(cs) : cs[i].f = "locationChanged"})

\* C8: every moveObserverTo emits locationChanged once, with the target,
\* when position is already the new observer; no other operation emits it.
C8_LocationChangedOnce ==
    [][/\ \A target \in Sites : \A ds \in MoveInputs :
              Moved(target, ds[1], ds[2]) =>
                  /\ Emitted(calls') = 1
                  /\ calls'[1].f = "locationChanged"
                  /\ calls'[1].target = target
                  /\ calls'[1].position = position'
       /\ Emitted(calls') # 0 => AnyMoveObserverTo]_vars

\* moveObserverTo with a chosen duration <= 0 has put the Static
\* observer at the target in position and emitted the signal.
C8_Witness ==
    /\ Len(calls) = 1
    /\ calls[1].f = "locationChanged"
    /\ calls[1].position.kind = "Static"
    /\ position = calls[1].position

---------------------------------------------------------------------------
(* The rate steppers as functions of the rate: the rate is drawn from the  *)
(* multiples of a quarter of JD_SECOND up to MaxTestRate JD_SECOND, and    *)
(* the four steppers are applied to it.                                    *)

MaxTestRate == 25

TestRates ==
    {k * (JD_SECOND \div 4) : k \in (-(4 * MaxTestRate))..(4 * MaxTestRate)}

RateInit ==
    /\ timeSpeed \in TestRates
    /\ JDay = J2000
    /\ position = StelObserver(Loc("Earth", "Paris"))
    /\ selected = NoSelection
    /\ mats = TransformMatrices(position, J2000)
    /\ calls = <<>>
    /\ AfterInit(MountAltAzimuthal)

RateNext ==
    /\ timeSpeed \in TestRates
    /\ \/ IncreaseTimeSpeed
       \/ DecreaseTimeSpeed
       \/ IncreaseTimeSpeedLess
       \/ DecreaseTimeSpeedLess

SpecRate == RateInit /\ [][RateNext]_vars

---------------------------------------------------------------------------
(* C9 *)

\* The rate r the claim gives for an increase step of factor k from s.
IncreaseResult(s, k, r) ==
    /\ s >= JD_SECOND => r = k * s
    /\ s < -JD_SECOND => r * k = s
    /\ (0 <= s /\ s < JD_SECOND) => r = JD_SECOND
    /\ (-JD_SECOND <= s /\ s < 0) => r = 0

\* C9: increaseTimeSpeed sets the rate to 10*s if s >= JD_SECOND, to s/10 if
\* s < -JD_SECOND, to JD_SECOND if 0 <= s < JD_SECOND and to 0 if
\* -JD_SECOND <= s < 0; increaseTimeSpeedLess does the same with 2 for 10,
\* and agrees with the coarse step on [-JD_SECOND, JD_SECOND).  From 0 the
\* increases give JD_SECOND, then 10*JD_SECOND; the decreases -JD_SECOND,
\* then -10*JD_SECOND.
C9_IncreaseTimeSpeed ==
    [][/\ IncreaseTimeSpeed =>
              /\ IncreaseResult(timeSpeed, 10, timeSpeed')
              /\ timeSpeed = 0 => timeSpeed' = JD_SECOND
              /\ timeSpeed = JD_SECOND => timeSpeed' = 10 * JD_SECOND
       /\ IncreaseTimeSpeedLess =>
              /\ IncreaseResult(timeSpeed, 2, timeSpeed')
              /\ (-JD_SECOND <= timeSpeed /\ timeSpeed < JD_SECOND)
                     => timeSpeed' = increaseTimeSpeed(timeSpeed)
       /\ DecreaseTimeSpeed =>
              /\ timeSpeed = 0 => timeSpeed' = -JD_SECOND
              /\ timeSpeed = -JD_SECOND => timeSpeed' = -10 * JD_SECOND]_vars

\* increaseTimeSpeed has multiplied the largest rate drawn by ten.
C9_Witness == timeSpeed = 10 * MaxTestRate * JD_SECOND

---------------------------------------------------------------------------
(* C10 *)

\* C10: the rate after decreaseTimeSpeed from s is the negation of the rate
\* after increaseTimeSpeed from -s, for every s, and decreaseTimeSpeedLess
\* mirrors increaseTimeSpeedLess in the same way.
C10_DecreaseMirrorsIncrease ==
    [][/\ DecreaseTimeSpeed => timeSpeed' = -increaseTimeSpeed(-timeSpeed)
       /\ DecreaseTimeSpeedLess => timeSpeed' = -increaseTimeSpeedLess(-timeSpeed)]_vars

\* decreaseTimeSpeedLess has doubled the most negative rate drawn.
C10_Witness == timeSpeed = -2 * MaxTestRate * JD_SECOND

---------------------------------------------------------------------------
(* C11 *)

\* A step of the vision direction setter named f.
SetterStep(f) == Len(calls') = 1 /\ calls'[1].f = f

\* The view matrix section 4.4 of the specification builds from the
\* directions, the mount mode and the matrices.
Section44View(mode, altAz, earthEqu, M) ==
    [f |-> altAz,
     sOf |-> IF mode = "MountEquatorial" THEN earthEqu ELSE altAz,
     sBy |-> IF mode = "MountEquatorial" THEN M.matEquinoxEquToAltAz ELSE <<>>]

\* The three directions agree under the matrices M: the equatorial one is
\* altAzToEquOfDate * alt-az and the J2000 one equOfDateToJ2000 * equatorial.
Consistent(altAz, earthEqu, j2000, M) ==
    /\ earthEqu = MatVec(M.matAltAzToEquinoxEqu, altAz)
    /\ j2000 = MatVec(M.matEquinoxEquToJ2000, earthEqu)

\* C11: right after setAltAzVisionDirection(v), setEquinoxEquVisionDirection(v)
\* or setJ2000EquVisionDirection(v), the matrices being those last computed
\* by updateTransformMatrices, the direction of the frame set is v, the
\* equatorial direction is altAzToEquOfDate * alt-az, the J2000 direction is
\* equOfDateToJ2000 * equatorial, and the view matrix is the one built from
\* the new directions.
C11_SetterDerivesAll ==
    [][\A pos \in VisionInputs :
          /\ (SetterStep("setAltAzVisionDirection")
              /\ SetAltAzVisionDirection(pos))
                 => altAzVisionDirection' = pos
          /\ (SetterStep("setEquinoxEquVisionDirection")
              /\ SetEquinoxEquVisionDirection(pos))
                 => earthEquVisionDirection' = pos
          /\ (SetterStep("setJ2000EquVisionDirection")
              /\ SetJ2000EquVisionDirection(pos))
                 => J2000EquVisionDirection' = pos
          /\ (\/ SetterStep("setAltAzVisionDirection")
                 /\ SetAltAzVisionDirection(pos)
              \/ SetterStep("setEquinoxEquVisionDirection")
                 /\ SetEquinoxEquVisionDirection(pos)
              \/ SetterStep("setJ2000EquVisionDirection")
                 /\ SetJ2000EquVisionDirection(pos))
                 => /\ mats # UnsetMatrices
                    /\ mats' = mats
                    /\ Consistent(altAzVisionDirection', earthEquVisionDirection',
                                  J2000EquVisionDirection', mats')
                    /\ matAltAzModelView' =
                           Section44View(mountMode', altAzVisionDirection',
                                         earthEquVisionDirection', mats')]_vars

\* setJ2000EquVisionDirection has stored a direction and derived the other
\* two from computed matrices, in equatorial mount mode.
C11_Witness ==
    /\ Len(calls) = 1
    /\ calls[1].f = "setJ2000EquVisionDirection"
    /\ J2000EquVisionDirection \in VisionInputs
    /\ earthEquVisionDirection.m # <<>>
    /\ altAzVisionDirection.m # <<>>
    /\ mountMode = "MountEquatorial"
    /\ matAltAzModelView.sOf = earthEquVisionDirection

---------------------------------------------------------------------------
(* C12 *)

\* The stored directions agree under the current matrices.
DirectionsConsistent ==
    Consistent(altAzVisionDirection, earthEquVisionDirection,
               J2000EquVisionDirection, mats)

directions ==
    <<altAzVisionDirection, earthEquVisionDirection, J2000EquVisionDirection>>

\* C12 as stated: in every state after init() the three stored directions
\* are consistent under the current transform matrices.
C12_Original == Ready => DirectionsConsistent

\* C12 amended: every operation that writes a direction writes the three
\* together, consistent under the matrices of that moment (init() and the
\* three setters do); they stay consistent for as long as the matrices are
\* not changed, and no operation other than init() and the setters writes
\* them: once updateTransformMatrices has changed the matrices they stay
\* stale until the next setter call.
C12_ConsistentUntilMatricesChange ==
    [][/\ directions' # directions => DirectionsConsistent'
       /\ (Ready /\ DirectionsConsistent /\ mats' = mats) => DirectionsConsistent'
       /\ directions' # directions =>
              \/ ~Ready
              \/ SetterStep("setAltAzVisionDirection")
              \/ SetterStep("setEquinoxEquVisionDirection")
              \/ SetterStep("setJ2000EquVisionDirection")
       /\ (Ready /\ mats' # mats) => directions' = directions]_vars

\* updateTransformMatrices has changed the matrices and the directions are
\* those of before.
C12_Witness ==
    /\ Ready
    /\ calls = <<>>
    /\ mats = TransformMatrices(position, JDay)
    /\ ~DirectionsConsistent
    /\ altAzVisionDirection \in VisionInputs

---------------------------------------------------------------------------
(* C13 *)

\* C13: once updateTransformMatrices has been called, whatever the Julian
\* Day and the observer, matEquinoxEquToAltAz is the transpose of
\* matAltAzToEquinoxEqu and matJ2000ToEquinoxEqu the transpose of
\* matEquinoxEquToJ2000, each pair multiplying to the identity, and
\* matJ2000ToAltAz is matEquinoxEquToAltAz * matJ2000ToEquinoxEqu; the
\* matrices change only in updateTransformMatrices, which init() calls too.
C13_TransposePairs ==
    /\ [](Ready =>
             /\ mats.matEquinoxEquToAltAz = Transpose(mats.matAltAzToEquinoxEqu)
             /\ mats.matJ2000ToEquinoxEqu = Transpose(mats.matEquinoxEquToJ2000)
             /\ MatMul(mats.matEquinoxEquToAltAz, mats.matAltAzToEquinoxEqu) = <<>>
             /\ MatMul(mats.matJ2000ToEquinoxEqu, mats.matEquinoxEquToJ2000) = <<>>
             /\ mats.matJ2000ToAltAz =
                    MatMul(mats.matEquinoxEquToAltAz, mats.matJ2000ToEquinoxEqu))
    /\ [][mats' # mats => (~Ready \/ Transformed)]_vars

\* updateTransformMatrices has computed the matrices for a transition in
\* progress at a Julian Day on the upper limit.
C13_Witness ==
    /\ position.kind = "Transition"
    /\ JDay = JDayMax
    /\ mats = TransformMatrices(position, JDay)
    /\ calls = <<>>

---------------------------------------------------------------------------
(* getIsTimeNow under changes of the simulated time and of the system      *)
(* clock: the clock is read at instants up to MaxClock seconds after the   *)
(* first; the simulation runs, is paused, and is set to the clock.         *)

MaxClock == 2

\* What StelUtils::getJDFromSystem() returns at those instants.
NowJDs == {JDAdd(FirstInstant, JDOfUnits(k * JD_SECOND)) : k \in 0..MaxClock}

NowNext ==
    \/ \E startJD \in {FirstInstant} \cup {setJDay(jd) : jd \in TodayJDs} :
           InitNavigator(DefaultLocation, FirstInstant, startJD, DefaultMountMode)
    \/ \E now \in NowJDs : SetTimeNow(now)
    \/ \E ts \in RateInputs : SetTimeRate(ts)
    \/ \E deltaTime \in 0..MaxDelta : UpdateTime(deltaTime)
    \/ \E now \in NowJDs : GetIsTimeNow(now)

SpecNow == Init /\ [][NowNext]_vars

---------------------------------------------------------------------------
(* C14 *)

\* A step of getIsTimeNow() when the system clock reads now.
NowStep(now) == Len(returned') = 1 /\ GetIsTimeNow(now)

\* C14: getIsTimeNow returns true when it is called right after setTimeNow
\* (the clock reading now in both), and false when it is called while
\* JDay differs from the system clock by more than JD_SECOND, whatever
\* calls, changes of the simulated time and progress of the clock came
\* before.
C14_IsTimeNow ==
    [][\A now \in NowJDs :
          NowStep(now) =>
              /\ (calls = <<CallGetJDFromSystem(now)>> /\ JDay = now)
                     => returned' = <<TRUE>>
              /\ JDLess(JDOfUnits(JD_SECOND), JDAbsDiff(JDay, now))
                     => returned' = <<FALSE>>]_vars

---------------------------------------------------------------------------
(* addSolarDays and addSiderealDays as functions of the Julian Day and the *)
(* observer: the Julian Day is drawn from the middle and the two ends of   *)
(* the supported range, the observer from the observers at rest and in     *)
(* transit between the sites and the barycenter, and one of the two        *)
(* operations is applied.                                                  *)

\* The day counts passed to the two operations are -MaxDays..MaxDays.
MaxDays == 2

\* The length in seconds of the transitions in progress.
TransitSeconds == 2

\* The location of an observer whose home planet is the pseudo-body
\* "Solar System StelObserver".
Barycenter == Loc("Solar System StelObserver", "")

DaySites == Sites \cup {Barycenter}

\* Half a day, the distance of two of the Julian Days from the limits.
HalfDay == JDOfUnits(FracPerDay \div 2)

DayJDays == {J2000, JDAdd(JDayMax, JDNeg(HalfDay)), JDAdd(JDayMin, HalfDay)}

DayCounts == (-MaxDays)..MaxDays

\* Observers at rest, and transitions after 0..TransitSeconds seconds.
DayObservers ==
    {StelObserver(l) : l \in DaySites}
    \cup {ObserverUpdate(SpaceShipObserver(a, b, TransitSeconds), el) :
              a \in DaySites, b \in DaySites, el \in 0..TransitSeconds}

DaysInit ==
    /\ JDay \in DayJDays
    /\ timeSpeed = JD_SECOND
    /\ position \in DayObservers
    /\ selected = NoSelection
    /\ mats = TransformMatrices(position, J2000)
    /\ calls = <<>>
    /\ AfterInit(MountAltAzimuthal)

DaysNext ==
    /\ JDay \in DayJDays
    /\ \/ \E n \in DayCounts : AddSolarDays(Days(n))
       \/ \E n \in DayCounts : AddSiderealDays(n)

SpecDays == DaysInit /\ [][DaysNext]_vars

---------------------------------------------------------------------------
(* C15 *)

\* The two operations both leave calls and returned empty; they are told
\* apart by the Julian Day they produce.
SolarStep(n) == JDay' # JDay /\ AddSolarDays(Days(n))

SiderealStepTaken(n) == JDay' # JDay /\ AddSiderealDays(n)

\* The home planet of the observer now: the planet of its current location,
\* which for a transition is that of the interpolated location.
HomeNow ==
    IF position.kind = "Transition"
    THEN InterpolatedLocation(position.from, position.to, position.duration,
                              position.elapsed).planetName
    ELSE position.loc.planetName

\* The advance the claim names for addSiderealDays(n).
ClaimedSiderealAdvance(n) ==
    IF HomeNow = "Solar System StelObserver" THEN Days(n)
    ELSE JDTimes(n, SiderealDay(HomeNow))

\* C15 as stated: addSolarDays(n) advances JDay by exactly n, and
\* addSiderealDays(n) by n sidereal days of the current home planet, or by
\* exactly n at the barycenter.
C15_Original ==
    [][\A n \in DayCounts :
          /\ SolarStep(n) => JDay' = JDAdd(JDay, Days(n))
          /\ SiderealStepTaken(n) => JDay' = JDAdd(JDay, ClaimedSiderealAdvance(n))]_vars

\* C15: addSolarDays(n) sets JDay to JDay + n, and addSiderealDays(n) to
\* JDay + n sidereal days of the home planet of the current observer (the
\* interpolated one during a transition), or JDay + n at the barycenter,
\* in both cases limited to the supported range by setJDay; nothing else
\* changes.
C15_AddDays ==
    [][\A n \in DayCounts :
          /\ SolarStep(n) => JDay' = setJDay(JDAdd(JDay, Days(n)))
          /\ SiderealStepTaken(n) =>
                 JDay' = setJDay(JDAdd(JDay, ClaimedSiderealAdvance(n)))
          /\ (SolarStep(n) \/ SiderealStepTaken(n)) =>
                 UNCHANGED <<timeSpeed, position, selected, mats, viewVars>>]_vars

\* addSiderealDays has acted at the barycenter, and on a transition past
\* its midpoint, away from the limits.
C15_Witness ==
    /\ position.kind = "Transition"
    /\ position.from.planetName = "Earth"
    /\ position.loc.planetName = "Solar System StelObserver"
    /\ JDay = JDAdd(J2000, Days(MaxDays))

---------------------------------------------------------------------------
(* C16 *)

\* A step of setTodayTime: every such step reads the system clock last.
TodayStep(valid, today, now) ==
    /\ calls' # <<>>
    /\ calls'[Len(calls')] = CallGetJDFromSystem(now)
    /\ SetTodayTime(valid, today, now)

Warned(cs) == \E i \in 1..Len(cs) : cs[i].f = "qWarning"

\* C16: setTodayTime with an invalid time reports a warning and leaves JDay
\* at the value setTimeNow sets when the clock reads the same; with a valid
\* time it sets JDay to today at that time, without a warning; in neither
\* case does it change the rate, the observer, the matrices or the vision
\* directions.
C16_SetTodayTime ==
    [][\A valid \in BOOLEAN : \A today \in TodayJDs : \A now \in SystemJDs :
          TodayStep(valid, today, now) =>
              /\ ~valid => (Warned(calls') /\ JDay' = setJDay(now))
              /\ valid => (~Warned(calls') /\ JDay' = today)
              /\ UNCHANGED <<timeSpeed, position, mats, viewVars>>]_vars

\* setTodayTime has fallen back to the system clock, with the rate changed
\* before.
C16_Witness ==
    /\ Warned(calls)
    /\ JDay \in SystemJDs
    /\ timeSpeed # JD_SECOND
    /\ position.kind = "Transition"

---------------------------------------------------------------------------
(* C17 *)

UnSelected(cs) == \E i \in 1..Len(cs) : cs[i].f = "unSelect"

\* The lifetime of the observer is over: a transition whose time has run.
LifetimeOver ==
    position.kind = "Transition" /\ position.elapsed >= position.duration

\* The observer after the step is the object it was before, further along.
SameObserverObject ==
    /\ position'.kind = position.kind
    /\ position.kind = "Static" => position' = position
    /\ position.kind = "Transition" =>
           /\ position'.from = position.from
           /\ position'.to = position.to
           /\ position'.duration = position.duration

\* C17: updateTime calls unSelect exactly when the observer's lifetime is
\* over, an object is selected and that object is the home planet of the
\* outgoing observer; the call is made while the outgoing observer is still
\* the observer, and it is the first call of the tick; a tick that does not
\* call it leaves the selection as it was, and a tick in which the lifetime
\* is not over leaves the selection and keeps the observer object.
C17_UnSelectExactlyWhen ==
    [][\A deltaTime \in 0..MaxDelta :
          Ticked(deltaTime) =>
              /\ UnSelected(calls') <=>
                     (LifetimeOver /\ selected # NoSelection /\ selected = HomeNow)
              /\ UnSelected(calls') =>
                     /\ calls'[1] = CallUnSelect(position)
                     /\ selected' = NoSelection
                     /\ position' # position
              /\ ~UnSelected(calls') => selected' = selected
              /\ ~LifetimeOver => (selected' = selected /\ SameObserverObject)]_vars

\* A tick has cleared the selection on arrival at the selected planet.
C17_Witness ==
    /\ UnSelected(calls)
    /\ selected = NoSelection
    /\ position.kind = "Static"
    /\ position.loc.planetName \in Selectable

---------------------------------------------------------------------------
(* moveObserverTo against transitions in progress: the clock is paused at  *)
(* the middle or at an end of the supported range, the observer is at rest *)
(* or in transit, and moveObserverTo, updateTime and the selection act in  *)
(* any order.  updateTime is called for every frame, so a call with a      *)
(* positive deltaTime is never put off for ever.                           *)

SettleInit ==
    /\ JDay \in {J2000, JDayMax, JDayMin}
    /\ timeSpeed = 0
    /\ position \in TickObservers
    /\ selected = NoSelection
    /\ mats = TransformMatrices(position, J2000)
    /\ calls = <<>>
    /\ AfterInit(MountAltAzimuthal)

FrameTick == \E deltaTime \in 1..MaxDelta : UpdateTime(deltaTime)

SettleNext ==
    \/ \E target \in Sites : \E ds \in MoveInputs :
           MoveObserverTo(target, ds[1], ds[2])
    \/ \E deltaTime \in 0..MaxDelta : UpdateTime(deltaTime)
    \/ \E obj \in Selectable \cup {NoSelection} : Select(obj)

SpecSettle == SettleInit /\ [][SettleNext]_vars /\ WF_vars(FrameTick)

---------------------------------------------------------------------------
(* C18 *)

\* The location a transition in progress reports now.
InterpolatedNow ==
    InterpolatedLocation(position.from, position.to, position.duration,
                         position.elapsed)

---------------------------------------------------------------------------
(* The four rate steps on every rate a double can hold: the finite rates   *)
(* of the rate specification, and the two infinities, which setTimeRate    *)
(* stores as it stores any other double.                                   *)

AllRates == TestRates \cup {Infinity, -Infinity}

AllRatesNext ==
    \/ \E ts \in RateInputs \cup {Infinity, -Infinity} : SetTimeRate(ts)
    \/ /\ timeSpeed \in AllRates
       /\ \/ IncreaseTimeSpeed
          \/ DecreaseTimeSpeed
          \/ IncreaseTimeSpeedLess
          \/ DecreaseTimeSpeedLess

SpecAllRates == RateInit /\ [][AllRatesNext]_vars

---------------------------------------------------------------------------
(* C19 *)

\* The steps that are tried before a rate is given up as stuck.
MaxSteps == 40

RECURSIVE IncreasesReach(_, _, _)
\* Repeated increaseTimeSpeed or increaseTimeSpeedLess steps from s reach
\* exactly 0 and then exactly JD_SECOND within n steps.
IncreasesReach(s, less, n) ==
    LET r == IF less THEN increaseTimeSpeedLess(s) ELSE increaseTimeSpeed(s)
    IN  IF s = 0 THEN r = JD_SECOND
        ELSE n > 0 /\ IncreasesReach(r, less, n - 1)

RECURSIVE DecreasesReach(_, _, _)
\* Repeated decrease steps from s reach exactly 0 and then exactly
\* -JD_SECOND within n steps.
DecreasesReach(s, less, n) ==
    LET r == IF less THEN decreaseTimeSpeedLess(s) ELSE decreaseTimeSpeed(s)
    IN  IF s = 0 THEN r = -JD_SECOND
        ELSE n > 0 /\ DecreasesReach(r, less, n - 1)

\* C19 as stated: whatever the rate is, each increase step would set a
\* strictly greater rate and each decrease step a strictly smaller one;
\* from a negative rate the increase steps reach exactly 0 and then exactly
\* JD_SECOND in finitely many steps, and from a positive rate the decrease
\* steps reach exactly 0 and then exactly -JD_SECOND.
C19_Original ==
    Ready =>
        /\ increaseTimeSpeed(timeSpeed) > timeSpeed
        /\ increaseTimeSpeedLess(timeSpeed) > timeSpeed
        /\ decreaseTimeSpeed(timeSpeed) < timeSpeed
        /\ decreaseTimeSpeedLess(timeSpeed) < timeSpeed
        /\ timeSpeed < 0 =>
               \A less \in BOOLEAN : IncreasesReach(timeSpeed, less, MaxSteps)
        /\ timeSpeed > 0 =>
               \A less \in BOOLEAN : DecreasesReach(timeSpeed, less, MaxSteps)

\* C19: the same holds of every finite rate; at +infinity and -infinity
\* each of the four steps would set the rate it finds.
C19_FiniteNeverStuck ==
    Ready =>
        IF IsInfinite(timeSpeed)
        THEN /\ increaseTimeSpeed(timeSpeed) = timeSpeed
             /\ increaseTimeSpeedLess(timeSpeed) = timeSpeed
             /\ decreaseTimeSpeed(timeSpeed) = timeSpeed
             /\ decreaseTimeSpeedLess(timeSpeed) = timeSpeed
        ELSE C19_Original

\* decreaseTimeSpeed has set a negative rate far from zero, from which the
\* increases lead back to 0.
C19_Witness == timeSpeed = -10 * MaxTestRate * JD_SECOND

---------------------------------------------------------------------------
(* C20 *)

SetterNames ==
    {"setAltAzVisionDirection", "setEquinoxEquVisionDirection",
     "setJ2000EquVisionDirection"}

\* C20: every call of a vision direction setter, those made inside init()
\* too, finds the transform matrices that updateTransformMatrices computes
\* for the observer and the Julian Day of the moment of the call.
C20_SettersAfterMatrices ==
    \A i \in 1..Len(calls) :
        calls[i].f \in SetterNames =>
            calls[i].mats = TransformMatrices(calls[i].position, calls[i].jd)

=============================================================================
